---------------------------- MODULE Spec2Model ----------------------------
(***************************************************************************)
(* Text -> SQL application: the SQL safety gate, the generation-repair     *)
(* pipeline (cleaner, join repair), the execution engine of app_core.py    *)
(* and the request flow of app.py.                                         *)
(*                                                                         *)
(* A Python str is a sequence of one-character strings, so that trimming,  *)
(* case folding, substring search and the regular expressions are computed *)
(* character by character as the code computes them.                       *)
(***************************************************************************)
EXTENDS Integers, Sequences, FiniteSets, TLC

(***************************************************************************)
(* Bounds of the model.                                                    *)
(***************************************************************************)
\* An input string is the concatenation of at most MaxPieces fragments.
MaxPieces == 3
\* The store returns between 0 and MaxRows rows.
MaxRows == 1

(***************************************************************************)
(* Python str primitives.                                                  *)
(***************************************************************************)
LowerMap ==
    ("A" :> "a") @@ ("B" :> "b") @@ ("C" :> "c") @@ ("D" :> "d") @@
    ("E" :> "e") @@ ("F" :> "f") @@ ("G" :> "g") @@ ("H" :> "h") @@
    ("I" :> "i") @@ ("J" :> "j") @@ ("K" :> "k") @@ ("L" :> "l") @@
    ("M" :> "m") @@ ("N" :> "n") @@ ("O" :> "o") @@ ("P" :> "p") @@
    ("Q" :> "q") @@ ("R" :> "r") @@ ("S" :> "s") @@ ("T" :> "t") @@
    ("U" :> "u") @@ ("V" :> "v") @@ ("W" :> "w") @@ ("X" :> "x") @@
    ("Y" :> "y") @@ ("Z" :> "z")

LowerChar(c) == IF c \in DOMAIN LowerMap THEN LowerMap[c] ELSE c

\* The backtick character, named: a string literal of the module cannot hold it.
Backtick == "BACKTICK"

\* str.lower()
lower(s) == [i \in 1..Len(s) |-> LowerChar(s[i])]

\* The characters str.strip() removes and the regular expression \s matches.
Whitespace == {" ", "\t", "\n", "\r", "\f"}

\* The characters the regular expression \w matches.
WordChars ==
    (DOMAIN LowerMap) \cup {LowerMap[c] : c \in DOMAIN LowerMap}
    \cup {"0", "1", "2", "3", "4", "5", "6", "7", "8", "9", "_"}

\* str.strip()
strip(s) ==
    LET keep == {i \in 1..Len(s) : s[i] \notin Whitespace}
    IN  IF keep = {} THEN <<>>
        ELSE SubSeq(s, CHOOSE i \in keep : \A j \in keep : i <= j,
                       CHOOSE i \in keep : \A j \in keep : j <= i)

\* str.rstrip(chars)
rstrip(s, chars) ==
    LET keep == {i \in 1..Len(s) : s[i] \notin chars}
    IN  IF keep = {} THEN <<>>
        ELSE SubSeq(s, 1, CHOOSE i \in keep : \A j \in keep : j <= i)

\* t occurs in s at position i
MatchAt(s, i, t) ==
    /\ i >= 1
    /\ i + Len(t) - 1 <= Len(s)
    /\ \A j \in 1..Len(t) : s[i + j - 1] = t[j]

\* str.startswith(t)
startswith(s, t) == MatchAt(s, 1, t)

\* t in s
contains(s, t) == \E i \in 1..(Len(s) - Len(t) + 1) : MatchAt(s, i, t)

\* str.count(c) for a one-character c
count(s, c) == Cardinality({i \in 1..Len(s) : s[i] = c})

(***************************************************************************)
(* is_sql_safe                                                             *)
(***************************************************************************)
select == <<"s","e","l","e","c","t">>

forbidden ==
    << <<"i","n","s","e","r","t">>,
       <<"u","p","d","a","t","e">>,
       <<"d","e","l","e","t","e">>,
       <<"d","r","o","p">>,
       <<"a","l","t","e","r">>,
       <<"c","r","e","a","t","e">>,
       <<"a","t","t","a","c","h">>,
       <<"p","r","a","g","m","a">>,
       <<"v","a","c","u","u","m">>,
       <<";","-","-">>,
       <<"-","-">> >>

\* A plausible slip: the tokens are searched in the text as typed.
is_sql_safe_cased(sql) ==
    IF sql = <<>> THEN FALSE
    ELSE LET sql_lower == strip(sql)
         IN  IF ~startswith(lower(sql_lower), select) THEN FALSE
             ELSE IF \E k \in 1..Len(forbidden) : contains(sql_lower, forbidden[k])
                  THEN FALSE
             ELSE IF contains(sql_lower, <<";">>) /\ count(sql_lower, ";") > 1
                  THEN FALSE
             ELSE TRUE

is_sql_safe(sql) ==
    IF sql = <<>> THEN FALSE
    ELSE LET sql_lower == lower(strip(sql))
         IN  IF ~startswith(sql_lower, select) THEN FALSE
             ELSE IF \E k \in 1..Len(forbidden) : contains(sql_lower, forbidden[k])
                  THEN FALSE
             ELSE IF contains(sql_lower, <<";">>) /\ count(sql_lower, ";") > 1
                  THEN FALSE
             ELSE TRUE

(***************************************************************************)
(* _clean_model_sql                                                        *)
(***************************************************************************)
\* t (given in lower case) occurs in s at position i, in any case
MatchAtIgnoreCase(s, i, t) ==
    /\ i >= 1
    /\ i + Len(t) - 1 <= Len(s)
    /\ \A j \in 1..Len(t) : LowerChar(s[i + j - 1]) = t[j]

\* The regular expression \b between s[i] and s[i+1], s[i] being a word character.
WordEndsAt(s, i) == i = Len(s) \/ s[i + 1] \notin WordChars

\* re.sub of the fence pattern (three backticks, then sql if it follows, in
\* any case) by the empty string, scanning s from position i
RECURSIVE sub_fences(_, _)
sub_fences(s, i) ==
    IF i > Len(s) THEN <<>>
    ELSE IF MatchAt(s, i, <<Backtick,Backtick,Backtick>>)
         THEN IF MatchAtIgnoreCase(s, i + 3, <<"s","q","l">>)
              THEN sub_fences(s, i + 6)
              ELSE sub_fences(s, i + 3)
         ELSE <<s[i]>> \o sub_fences(s, i + 1)

\* re.search of the select pattern (select in any case, then a word boundary,
\* then the rest of the text): where the match starts (0: no match); group 1
\* runs from there to the end of s.
search_select(s) ==
    LET at == {i \in 1..Len(s) :
                  MatchAtIgnoreCase(s, i, select) /\ WordEndsAt(s, i + 5)}
    IN  IF at = {} THEN 0 ELSE CHOOSE i \in at : \A j \in at : i <= j

\* A plausible slip: the fences are left in the text.
_clean_model_sql_fenced(raw) ==
    IF raw = <<>> THEN raw
    ELSE LET sql == strip(raw)
             m == search_select(sql)
         IN  IF m # 0 THEN strip(SubSeq(sql, m, Len(sql))) ELSE sql

\* A plausible slip: without a match the text is returned as it came.
_clean_model_sql_raw(raw) ==
    IF raw = <<>> THEN raw
    ELSE LET sql == strip(sub_fences(strip(raw), 1))
             m == search_select(sql)
         IN  IF m # 0 THEN strip(SubSeq(sql, m, Len(sql))) ELSE raw

_clean_model_sql(raw) ==
    IF raw = <<>> THEN raw
    ELSE LET sql == strip(sub_fences(strip(raw), 1))
             m == search_select(sql)
         IN  IF m # 0 THEN strip(SubSeq(sql, m, Len(sql))) ELSE sql

(***************************************************************************)
(* _auto_fix_joins                                                         *)
(***************************************************************************)
from == <<"f","r","o","m">>
sales == <<"s","a","l","e","s">>

\* The trigger texts of line 79 and the join texts of line 81.
from_sales == <<"f","r","o","m"," ","s","a","l","e","s">>
product_name == <<"p","r","o","d","u","c","t","_","n","a","m","e">>
customer_name == <<"c","u","s","t","o","m","e","r","_","n","a","m","e">>
customers_name == <<"c","u","s","t","o","m","e","r","s",".","n","a","m","e">>
join_products == <<"j","o","i","n"," ","p","r","o","d","u","c","t","s">>
join_customers == <<"j","o","i","n"," ","c","u","s","t","o","m","e","r","s">>

\* lines 86-88
replacement ==
    <<"F","R","O","M"," ","s","a","l","e","s"," ","s","\n","L","E","F","T",
      " ","J","O","I","N"," ","p","r","o","d","u","c","t","s"," ","p"," ",
      "O","N"," ","s",".","p","r","o","d","u","c","t","_","i","d"," ","=",
      " ","p",".","p","r","o","d","u","c","t","_","i","d","\n","L","E","F",
      "T"," ","J","O","I","N"," ","c","u","s","t","o","m","e","r","s"," ",
      "c"," ","O","N"," ","s",".","c","u","s","t","o","m","e","r","_","i",
      "d"," ","="," ","c",".","c","u","s","t","o","m","e","r","_","i","d">>

\* The pattern of line 85 (from, one or more whitespace characters, sales, a
\* word boundary; any case) matched at position i: the position of its last
\* character, 0 when it does not match there.
pattern_end(s, i) ==
    IF ~MatchAtIgnoreCase(s, i, from) THEN 0
    ELSE LET ks == {k \in (i + 5)..(Len(s) - 4) :
                       /\ \A j \in (i + 4)..(k - 1) : s[j] \in Whitespace
                       /\ MatchAtIgnoreCase(s, k, sales)
                       /\ WordEndsAt(s, k + 4)}
         IN  IF ks = {} THEN 0 ELSE (CHOOSE k \in ks : TRUE) + 4

\* pattern.sub(repl, s, count=1)
pattern_sub(repl, s) ==
    LET at == {i \in 1..Len(s) : pattern_end(s, i) # 0}
    IN  IF at = {} THEN s
        ELSE LET i == CHOOSE m \in at : \A n \in at : m <= n
             IN  SubSeq(s, 1, i - 1) \o repl \o SubSeq(s, pattern_end(s, i) + 1, Len(s))

\* A plausible slip: the test for joins already present is left out.
_auto_fix_joins_again(sql) ==
    LET sql_lower == lower(sql)
    IN  IF /\ contains(sql_lower, from_sales)
           /\ \/ contains(sql_lower, product_name)
              \/ contains(sql_lower, customer_name)
              \/ contains(sql_lower, customers_name)
        THEN pattern_sub(replacement, sql)
        ELSE sql

\* A plausible slip: every FROM sales is replaced, not the first alone.
RECURSIVE pattern_sub_all(_, _)
pattern_sub_all(repl, s) ==
    LET at == {i \in 1..Len(s) : pattern_end(s, i) # 0}
    IN  IF at = {} THEN s
        ELSE LET i == CHOOSE m \in at : \A n \in at : m <= n
             IN  SubSeq(s, 1, i - 1) \o repl
                   \o pattern_sub_all(repl, SubSeq(s, pattern_end(s, i) + 1, Len(s)))

_auto_fix_joins_all(sql) ==
    LET sql_lower == lower(sql)
    IN  IF /\ contains(sql_lower, from_sales)
           /\ \/ contains(sql_lower, product_name)
              \/ contains(sql_lower, customer_name)
              \/ contains(sql_lower, customers_name)
        THEN IF contains(sql_lower, join_products) \/ contains(sql_lower, join_customers)
             THEN sql
             ELSE pattern_sub_all(replacement, sql)
        ELSE sql

_auto_fix_joins(sql) ==
    LET sql_lower == lower(sql)
    IN  IF /\ contains(sql_lower, from_sales)
           /\ \/ contains(sql_lower, product_name)
              \/ contains(sql_lower, customer_name)
              \/ contains(sql_lower, customers_name)
        THEN IF contains(sql_lower, join_products) \/ contains(sql_lower, join_customers)
             THEN sql
             ELSE pattern_sub(replacement, sql)
        ELSE sql

(***************************************************************************)
(* State.                                                                  *)
(***************************************************************************)
VARIABLES
    arg,         \* the argument of the call in progress
    op,          \* the function of app_core called: "none" before any call
    ret,         \* what the call returned or raised
    rpc,         \* run_sql: the position reached
    sql_to_run,  \* run_sql: the statement after the trailing terminator is cut
    exc,         \* run_sql: the exception the store raised, caught at line 200
    openConns,   \* store connections open
    connects,    \* store connections opened since the request began
    executed,    \* statements handed to the store since the request began
    log,         \* the calls completed before the one in progress
    \* app.py: st.session_state and the widgets
    learning_mode,  \* the Beginner Mode toggle
    question,       \* the text of the question input
    generated_sql,  \* st.session_state.generated_sql
    asked,          \* the question generated_sql was generated from (line 126)
    query_result,   \* st.session_state.query_result
    history,        \* st.session_state.history, newest first
    edited,         \* what the user typed into the SQL text area, if anything
    editor_shown,   \* the text area and Run SQL were rendered by the last run
    \* app.py: one run of the script
    upc,            \* the block the script has reached; "idle" between runs
    generate_btn,   \* Generate & Run SQL was clicked
    run_btn,        \* Run SQL was clicked
    run_sql_text,   \* the statement this run is to execute
    explanation,    \* what explain_sql returned
    outcome,        \* how the run ended
    trace           \* the calls and the messages of this run, in order

coreVars == <<arg, op, ret, rpc, sql_to_run, exc, openConns, connects, executed, log>>
uiVars ==
    <<learning_mode, question, generated_sql, asked, query_result, history, edited,
      editor_shown, upc, generate_btn, run_btn, run_sql_text, explanation,
      outcome, trace>>
vars == <<coreVars, uiVars>>

None == [tag |-> "none"]
Bool(b) == [tag |-> "bool", val |-> b]
Str(s) == [tag |-> "str", val |-> s]
DataFrame(n) == [tag |-> "df", rows |-> n]
Raise(m) == [tag |-> "raise", msg |-> m]

\* The messages of the exceptions run_sql raises.
SafetyPolicyError ==
    <<"SQL blocked by safety policy (only SELECT allowed or query contained unsafe tokens).">>
ExecutionError(e) == <<"SQL execution error: ", e>>

\* What the store answers to a statement it cannot execute.
DbErrors == {"no such column", "syntax error", "datatype mismatch"}

RECURSIVE Concats(_, _)
Concats(P, n) ==
    IF n = 0 THEN {<<>>}
    ELSE LET prev == Concats(P, n - 1)
         IN  prev \cup {s \o p : s \in prev, p \in P}

\* The text area shows the generated statement: the user has typed nothing.
Unset == <<"UNSET">>

\* app.py lines 24-31 and the widgets' defaults
InitSession ==
    /\ learning_mode = TRUE
    /\ question = <<>>
    /\ generated_sql = <<>>
    /\ asked = <<>>
    /\ query_result = None
    /\ history = <<>>
    /\ edited = Unset
    /\ editor_shown = FALSE
    /\ upc = "idle"
    /\ generate_btn = FALSE
    /\ run_btn = FALSE
    /\ run_sql_text = <<>>
    /\ explanation = <<>>
    /\ outcome = "none"
    /\ trace = <<>>

InitCore(inputs) ==
    /\ arg \in inputs
    /\ op = "none"
    /\ ret = None
    /\ rpc = "idle"
    /\ sql_to_run = <<>>
    /\ exc = "none"
    /\ openConns = 0
    /\ connects = 0
    /\ executed = <<>>
    /\ log = <<>>
    /\ InitSession

(***************************************************************************)
(* The gate called on its own.                                             *)
(***************************************************************************)
CallIsSqlSafe ==
    /\ op = "none"
    /\ op' = "is_sql_safe"
    /\ ret' = Bool(is_sql_safe(arg))
    /\ UNCHANGED <<arg, rpc, sql_to_run, exc, openConns, connects, executed, log>>
    /\ UNCHANGED uiVars

(***************************************************************************)
(* run_sql, one action per step.                                           *)
(***************************************************************************)
CallRunSql ==
    /\ op = "none"
    /\ op' = "run_sql"
    /\ rpc' = "check"
    /\ UNCHANGED <<arg, ret, sql_to_run, exc, openConns, connects, executed, log>>
    /\ UNCHANGED uiVars

\* A plausible slip: the engine trusts its caller and does not ask the gate.
RunSqlCheckTrusting ==
    /\ rpc = "check"
    /\ sql_to_run' = rstrip(strip(arg), {";"})
    /\ rpc' = "connect"
    /\ UNCHANGED <<arg, op, ret, exc, openConns, connects, executed, log>>
    /\ UNCHANGED uiVars

\* lines 191-195
RunSqlCheck ==
    /\ rpc = "check"
    /\ IF ~is_sql_safe(arg)
       THEN /\ ret' = Raise(SafetyPolicyError)
            /\ rpc' = "done"
            /\ UNCHANGED sql_to_run
       ELSE /\ sql_to_run' = rstrip(strip(arg), {";"})
            /\ rpc' = "connect"
            /\ UNCHANGED ret
    /\ UNCHANGED <<arg, op, exc, openConns, connects, executed, log>>
    /\ UNCHANGED uiVars

\* line 197
RunSqlConnect ==
    /\ rpc = "connect"
    /\ openConns' = openConns + 1
    /\ connects' = connects + 1
    /\ rpc' = "execute"
    /\ UNCHANGED <<arg, op, ret, sql_to_run, exc, executed, log>>
    /\ UNCHANGED uiVars

\* line 199: the store executes the statement and returns its rows
RunSqlExecuteOk ==
    /\ rpc = "execute"
    /\ \E n \in 0..MaxRows : ret' = DataFrame(n)
    /\ executed' = Append(executed, sql_to_run)
    /\ rpc' = "close"
    /\ UNCHANGED <<arg, op, sql_to_run, exc, openConns, connects, log>>
    /\ UNCHANGED uiVars

\* lines 199-200: the store raises
RunSqlExecuteFail ==
    /\ rpc = "execute"
    /\ \E e \in DbErrors : exc' = e
    /\ executed' = Append(executed, sql_to_run)
    /\ rpc' = "except"
    /\ UNCHANGED <<arg, op, ret, sql_to_run, openConns, connects, log>>
    /\ UNCHANGED uiVars

\* A plausible slip: the handler re-raises without releasing the connection.
RunSqlExceptLeaking ==
    /\ rpc = "except"
    /\ ret' = Raise(ExecutionError(exc))
    /\ rpc' = "done"
    /\ UNCHANGED <<arg, op, sql_to_run, exc, openConns, connects, executed, log>>
    /\ UNCHANGED uiVars

\* lines 200-203
RunSqlExcept ==
    /\ rpc = "except"
    /\ openConns' = openConns - 1
    /\ ret' = Raise(ExecutionError(exc))
    /\ rpc' = "done"
    /\ UNCHANGED <<arg, op, sql_to_run, exc, connects, executed, log>>
    /\ UNCHANGED uiVars

\* lines 204-205
RunSqlClose ==
    /\ rpc = "close"
    /\ openConns' = openConns - 1
    /\ rpc' = "done"
    /\ UNCHANGED <<arg, op, ret, sql_to_run, exc, connects, executed, log>>
    /\ UNCHANGED uiVars

RunSqlStep ==
    \/ RunSqlCheck
    \/ RunSqlConnect
    \/ RunSqlExecuteOk
    \/ RunSqlExecuteFail
    \/ RunSqlExcept
    \/ RunSqlClose

(***************************************************************************)
(* The gate and the engine, on every string built from the fragments.      *)
(***************************************************************************)
GatePieces ==
    { <<"s","e","l","e","c","t">>,
      <<"S","e","l","e","c","t">>,
      <<" ">>,
      <<";">>,
      <<"-">>,
      <<"x">>,
      <<"I","N","S","E","R","T">>,
      <<"U","p","d","a","t","e">>,
      <<"d","e","l","e","t","e">>,
      <<"D","R","O","P">>,
      <<"a","l","t","e","r">>,
      <<"C","r","e","a","t","e">>,
      <<"A","T","T","A","C","H">>,
      <<"p","r","a","g","m","a">>,
      <<"V","a","c","u","u","m">>,
      <<"\n">> }

GateInputs == Concats(GatePieces, MaxPieces)

Init == InitCore(GateInputs)

Next ==
    \/ CallIsSqlSafe
    \/ CallRunSql
    \/ RunSqlStep

Spec == Init /\ [][Next]_vars

(***************************************************************************)
(* Claims about the gate and the engine (specification Spec).              *)
(***************************************************************************)
\* The forbidden tokens as the specification lists them.
ListedTokens ==
    { <<"i","n","s","e","r","t">>, <<"u","p","d","a","t","e">>,
      <<"d","e","l","e","t","e">>, <<"d","r","o","p">>,
      <<"a","l","t","e","r">>, <<"c","r","e","a","t","e">>,
      <<"a","t","t","a","c","h">>, <<"p","r","a","g","m","a">>,
      <<"v","a","c","u","u","m">>, <<";","-","-">>, <<"-","-">> }

C2_RunSqlRevalidates ==
    (op = "run_sql" /\ rpc # "check" /\ ~is_sql_safe(arg)) =>
        /\ rpc = "done"
        /\ ret = Raise(SafetyPolicyError)
        /\ connects = 0
        /\ openConns = 0
        /\ executed = <<>>

\* C2 witness: run_sql has refused a string that starts with select and holds a
\* forbidden token.
C2_Witness ==
    /\ op = "run_sql"
    /\ rpc = "done"
    /\ startswith(lower(arg), select)
    /\ ~is_sql_safe(arg)
    /\ ret = Raise(SafetyPolicyError)

\* C3: when run_sql has finished no connection is open, and when the store
\* raised, run_sql raised a failure that carries the store's error text.
C3_ConnectionReleased ==
    (op = "run_sql" /\ rpc = "done") =>
        /\ openConns = 0
        /\ exc # "none" => ret = Raise(ExecutionError(exc))

\* C3 witness: a permitted statement was executed, the store raised, and
\* run_sql finished with the one connection it opened closed.
C3_Witness ==
    /\ op = "run_sql"
    /\ rpc = "done"
    /\ exc = "no such column"
    /\ connects = 1
    /\ openConns = 0
    /\ ret = Raise(ExecutionError("no such column"))

\* C10: a string the gate permits has its semicolon, if any, at the end only
\* (after trimming), and no statement handed to the store holds a semicolon.
C10_SingleStatement ==
    /\ (op = "is_sql_safe" /\ ret.val /\ contains(arg, <<";">>)) =>
          LET t == strip(arg)
          IN  /\ t[Len(t)] = ";"
              /\ count(t, ";") = 1
    /\ \A i \in 1..Len(executed) : ~contains(executed[i], <<";">>)

(***************************************************************************)
(* The cleaner on every raw response built from the fragments, and the     *)
(* gate on what the cleaner returns.                                       *)
(***************************************************************************)
CleanPieces ==
    { <<"S","E","L","E","C","T">>,
      <<"s","e","l","e","c","t">>,
      <<" ">>,
      <<"\n">>,
      <<Backtick,Backtick,Backtick>>,
      <<"S","Q","L">>,
      <<"x">>,
      <<"*">>,
      <<"s","e","l">>,
      <<"e","c","t">>,
      <<"H","e","r","e"," ","i","s"," ","t","h","e"," ","q","u","e","r","y",":","\n",Backtick,Backtick,Backtick,"s","q","l","\n">>,
      <<"S","E","L","E","C","T"," ","*"," ","F","R","O","M"," ","s","a","l","e","s">>,
      <<"\n",Backtick,Backtick,Backtick>>,
      <<"_">> }

CleanInputs == Concats(CleanPieces, MaxPieces)

CallClean ==
    /\ op = "none"
    /\ op' = "_clean_model_sql"
    /\ ret' = Str(_clean_model_sql(arg))
    /\ UNCHANGED <<arg, rpc, sql_to_run, exc, openConns, connects, executed, log>>
    /\ UNCHANGED uiVars

GateOnCleaned ==
    /\ op = "_clean_model_sql"
    /\ log' = Append(log, [op |-> op, arg |-> arg, ret |-> ret])
    /\ arg' = ret.val
    /\ op' = "is_sql_safe"
    /\ ret' = Bool(is_sql_safe(ret.val))
    /\ UNCHANGED <<rpc, sql_to_run, exc, openConns, connects, executed>>
    /\ UNCHANGED uiVars

InitClean == InitCore(CleanInputs)

NextClean ==
    \/ CallClean
    \/ GateOnCleaned

SpecClean == InitClean /\ [][NextClean]_vars

(***************************************************************************)
(* Claims about the cleaner (specification SpecClean).                     *)
(***************************************************************************)
ExampleRaw ==
    <<"H","e","r","e"," ","i","s"," ","t","h","e"," ","q","u","e","r","y",":","\n",Backtick,Backtick,Backtick,"s","q","l","\n","S","E","L","E","C","T"," ","*"," ","F","R","O","M"," ","s","a","l","e","s","\n",Backtick,Backtick,Backtick>>
ExampleSql ==
    <<"S","E","L","E","C","T"," ","*"," ","F","R","O","M"," ","s","a","l","e","s">>

\* The text with every code-fence marker removed.
Defenced(s) == sub_fences(s, 1)

\* Where select occurs in s, in any case.
SelectAt(s) == {i \in 1..Len(s) : MatchAtIgnoreCase(s, i, select)}

\* Where select occurs in s, in any case, not followed by a letter, a digit or
\* an underscore.
SelectWordAt(s) ==
    {i \in SelectAt(s) : i + 6 > Len(s) \/ s[i + 6] \notin WordChars}

First(S) == CHOOSE i \in S : \A j \in S : i <= j

C5_NoSelectUnchanged ==
    /\ (op = "_clean_model_sql" /\ SelectAt(arg) = {}) => ret.val = strip(arg)
    /\ (op = "is_sql_safe" /\ log # <<>> /\ SelectAt(log[1].arg) = {}) =>
           ~ret.val

\* C5 amended: a raw response that holds no select once its fence markers are
\* removed is returned trimmed with the fence markers removed, and the gate
\* rejects what is returned.
C5_NoSelectDefenced ==
    /\ (op = "_clean_model_sql" /\ SelectAt(Defenced(arg)) = {}) =>
           ret.val = strip(Defenced(arg))
    /\ (op = "is_sql_safe" /\ log # <<>> /\ SelectAt(Defenced(log[1].arg)) = {}) =>
           /\ arg = strip(Defenced(log[1].arg))
           /\ ~ret.val

\* C5 witness: a fenced response without select came back without its fences
\* and the gate rejected it.
C5_Witness ==
    /\ op = "is_sql_safe"
    /\ log # <<>>
    /\ contains(log[1].arg, <<Backtick,Backtick,Backtick>>)
    /\ SelectAt(Defenced(log[1].arg)) = {}
    /\ arg # <<>>
    /\ arg # strip(log[1].arg)
    /\ ~ret.val

(***************************************************************************)
(* Join repair on every statement built from the fragments, applied once   *)
(* and then again to its own result.                                       *)
(***************************************************************************)
JoinPieces ==
    { <<"S","E","L","E","C","T"," ","p","r","o","d","u","c","t","_","n","a","m","e",","," ","S","U","M","(","q","u","a","n","t","i","t","y",")"," ">>,
      <<"F","R","O","M"," ","s","a","l","e","s">>,
      <<" ","G","R","O","U","P"," ","B","Y"," ","p","r","o","d","u","c","t","_","n","a","m","e">>,
      <<"f","r","o","m"," ">>,
      <<"s","a","l","e","s">>,
      <<" ">>,
      <<"x">>,
      <<" ","J","O","I","N"," ","p","r","o","d","u","c","t","s"," ","p">>,
      <<" ","j","o","i","n"," ","c","u","s","t","o","m","e","r","s">>,
      <<" ","J","O","I","N"," ","t">>,
      <<"\n">>,
      <<"c","u","s","t","o","m","e","r","_","n","a","m","e">>,
      <<"c","u","s","t","o","m","e","r","s",".","n","a","m","e">> }

JoinInputs == Concats(JoinPieces, MaxPieces)

CallAutoFix ==
    /\ op = "none"
    /\ op' = "_auto_fix_joins"
    /\ ret' = Str(_auto_fix_joins(arg))
    /\ UNCHANGED <<arg, rpc, sql_to_run, exc, openConns, connects, executed, log>>
    /\ UNCHANGED uiVars

AutoFixAgain ==
    /\ op = "_auto_fix_joins"
    /\ log = <<>>
    /\ log' = Append(log, [op |-> op, arg |-> arg, ret |-> ret])
    /\ arg' = ret.val
    /\ ret' = Str(_auto_fix_joins(ret.val))
    /\ UNCHANGED <<op, rpc, sql_to_run, exc, openConns, connects, executed>>
    /\ UNCHANGED uiVars

InitJoin == InitCore(JoinInputs)

NextJoin ==
    \/ CallAutoFix
    \/ AutoFixAgain

SpecJoin == InitJoin /\ [][NextJoin]_vars

(***************************************************************************)
(* Claims about join repair (specification SpecJoin).                      *)
(***************************************************************************)
ExampleQuery ==
    <<"S","E","L","E","C","T"," ","p","r","o","d","u","c","t","_","n","a",
      "m","e",","," ","S","U","M","(","q","u","a","n","t","i","t","y",")",
      " ","F","R","O","M"," ","s","a","l","e","s"," ","G","R","O","U","P",
      " ","B","Y"," ","p","r","o","d","u","c","t","_","n","a","m","e">>

ExampleRepaired ==
    <<"S","E","L","E","C","T"," ","p","r","o","d","u","c","t","_","n","a",
      "m","e",","," ","S","U","M","(","q","u","a","n","t","i","t","y",")",
      " ","F","R","O","M"," ","s","a","l","e","s"," ","s","\n","L","E","F",
      "T"," ","J","O","I","N"," ","p","r","o","d","u","c","t","s"," ","p",
      " ","O","N"," ","s",".","p","r","o","d","u","c","t","_","i","d"," ",
      "="," ","p",".","p","r","o","d","u","c","t","_","i","d","\n","L","E",
      "F","T"," ","J","O","I","N"," ","c","u","s","t","o","m","e","r","s",
      " ","c"," ","O","N"," ","s",".","c","u","s","t","o","m","e","r","_",
      "i","d"," ","="," ","c",".","c","u","s","t","o","m","e","r","_","i",
      "d"," ","G","R","O","U","P"," ","B","Y"," ","p","r","o","d","u","c",
      "t","_","n","a","m","e">>

join == <<"j","o","i","n">>

\* C6: join repair applied to its own result changes nothing, for every
\* statement that already holds a join.
C6_Idempotent ==
    (op = "_auto_fix_joins" /\ log # <<>> /\ contains(lower(log[1].arg), join)) =>
        ret = log[1].ret

\* C6 witness: a statement with a join that names neither products nor
\* customers was repaired, and the second pass returned the repaired text.
C6_Witness ==
    /\ op = "_auto_fix_joins"
    /\ log # <<>>
    /\ contains(lower(log[1].arg), join)
    /\ log[1].ret.val # log[1].arg
    /\ ret = log[1].ret

\* Where FROM sales stands in s: from, whitespace, sales as a whole word.
FromSalesAt(s) ==
    {i \in 1..Len(s) :
        /\ MatchAtIgnoreCase(s, i, from)
        /\ \E k \in (i + 5)..(Len(s) - 4) :
              /\ \A j \in (i + 4)..(k - 1) : s[j] \in Whitespace
              /\ MatchAtIgnoreCase(s, k, sales)
              /\ (k + 5 > Len(s) \/ s[k + 5] \notin WordChars)}

\* The length of the FROM sales clause that starts at position i of s.
RECURSIVE BlanksFrom(_, _)
BlanksFrom(s, j) ==
    IF j <= Len(s) /\ s[j] \in Whitespace THEN 1 + BlanksFrom(s, j + 1) ELSE 0
FromSalesLen(s, i) == 4 + BlanksFrom(s, i + 4) + 5

\* The statement with its first FROM sales replaced by the three-way join.
WithJoinBlock(s) ==
    LET i == First(FromSalesAt(s))
    IN  SubSeq(s, 1, i - 1) \o replacement
          \o SubSeq(s, i + FromSalesLen(s, i), Len(s))

UsesSales(s) == contains(lower(s), from_sales) /\ FromSalesAt(s) # {}
WantsProduct(s) == contains(lower(s), product_name)
WantsCustomer(s) ==
    contains(lower(s), customer_name) \/ contains(lower(s), customers_name)

\* C7 as stated: a statement on sales that requests a product or customer name
\* and holds no join to the corresponding table (products for a product name,
\* customers for a customer name) has its first FROM sales replaced by the
\* three-way join, the rest left as it was.
C7_RepairsMissingJoin ==
    ( /\ op = "_auto_fix_joins" /\ log = <<>>
      /\ UsesSales(arg)
      /\ \/ WantsProduct(arg) /\ ~contains(lower(arg), join_products)
         \/ WantsCustomer(arg) /\ ~contains(lower(arg), join_customers) ) =>
        ret.val = WithJoinBlock(arg)

\* C7 amended: a statement on sales that requests a product or customer name and
\* holds no join to products and none to customers has its first FROM sales
\* replaced by the three-way join, the rest left as it was.
C7_RepairsWhenNoJoin ==
    ( /\ op = "_auto_fix_joins" /\ log = <<>>
      /\ UsesSales(arg)
      /\ WantsProduct(arg) \/ WantsCustomer(arg)
      /\ ~contains(lower(arg), join_products)
      /\ ~contains(lower(arg), join_customers) ) =>
        ret.val = WithJoinBlock(arg)

\* C7 witness: the example statement got the join block before GROUP BY.
C7_Witness ==
    /\ op = "_auto_fix_joins"
    /\ log = <<>>
    /\ arg = ExampleQuery
    /\ ret = Str(ExampleRepaired)

(***************************************************************************)
(* app.py: the request flow.  Streamlit runs the script from top to bottom *)
(* once per user interaction; at most one button is clicked per run.  The  *)
(* example-question buttons are left out: to the rest of the script a      *)
(* click on one is the question input taking that text.  The elapsed time  *)
(* of a history entry (wall clock) is left out.                            *)
(***************************************************************************)
\* A history holds at most MaxHistory entries before it is cleared.
MaxHistory == 2

\* What the user types into the question input.
Questions == {<<>>, <<" ">>, <<"a">>, <<"b">>}

\* What the generation service answers with.
RawOutputs ==
    { <<>>,
      <<Backtick,Backtick,Backtick,"s","q","l","\n","S","E","L","E","C","T"," ","1","\n",Backtick,Backtick,Backtick>>,
      <<"d","r","o","p"," ","t">> }

\* What the user types into the SQL text area.
EditedSql == { <<"s","e","l","e","c","t"," ","2",";">> }

\* How the remote service fails.
ServiceErrors == {"timeout", "rate limit"}

Ev(e, a, r) == [ev |-> e, arg |-> a, res |-> r]

\* app_core.py lines 163-166, raw being the response of the service
generate_sql_from_text(raw) == _auto_fix_joins(_clean_model_sql(raw))

\* app_core.py line 184
ExplanationFailed(e) == <<"(Explanation failed: ", e, ")">>
\* app_core.py line 181
ExplanationText == <<"explanation">>

\* A run starts: the locals are fresh, and a text area that the last run did
\* not render has lost what was typed into it.
StartRun(gen, run, edit) ==
    /\ upc = "idle"
    /\ upc' = "generate"
    /\ generate_btn' = gen
    /\ run_btn' = run
    /\ edited' = IF editor_shown THEN edit ELSE Unset
    /\ editor_shown' = FALSE
    /\ run_sql_text' = <<>>
    /\ explanation' = <<>>
    /\ outcome' = "running"
    /\ trace' = <<>>
    /\ arg' = <<>>
    /\ op' = "none"
    /\ ret' = None
    /\ rpc' = "idle"
    /\ sql_to_run' = <<>>
    /\ exc' = "none"
    /\ connects' = 0
    /\ executed' = <<>>
    /\ UNCHANGED <<openConns, log, generated_sql, asked, query_result>>

\* lines 104-107: the user types a question
UserTypes ==
    /\ Len(history) < MaxHistory
    /\ \E q \in Questions \ {question} : question' = q
    /\ StartRun(FALSE, FALSE, edited)
    /\ UNCHANGED <<learning_mode, history>>

\* lines 47-50: the user flips Beginner Mode
UserToggles ==
    /\ Len(history) < MaxHistory
    /\ learning_mode' = ~learning_mode
    /\ StartRun(FALSE, FALSE, edited)
    /\ UNCHANGED <<question, history>>

\* lines 142-146: the user edits the SQL in the text area
UserEdits ==
    /\ Len(history) < MaxHistory
    /\ editor_shown
    /\ \E e \in EditedSql \ {edited} : StartRun(FALSE, FALSE, e)
    /\ UNCHANGED <<learning_mode, question, history>>

\* line 111: the user clicks Generate & Run SQL
UserClicksGenerate ==
    /\ Len(history) < MaxHistory
    /\ StartRun(TRUE, FALSE, edited)
    /\ UNCHANGED <<learning_mode, question, history>>

\* line 147: the user clicks Run SQL
UserClicksRun ==
    /\ Len(history) < MaxHistory
    /\ editor_shown
    /\ StartRun(FALSE, TRUE, edited)
    /\ UNCHANGED <<learning_mode, question, history>>

\* lines 113-115: the user clicks Clear History
UserClicksClear ==
    /\ history' = <<>>
    /\ StartRun(FALSE, FALSE, edited)
    /\ UNCHANGED <<learning_mode, question>>

\* The script stops here: st.stop(), an uncaught exception, or its last line.
EndRun(how) ==
    /\ upc' = "idle"
    /\ outcome' = how

\* line 120, the button not clicked
GenerateSkip ==
    /\ upc = "generate"
    /\ ~generate_btn
    /\ upc' = "display"
    /\ UNCHANGED <<coreVars, learning_mode, question, generated_sql, asked, query_result,
                   history, edited, editor_shown, generate_btn, run_btn,
                   run_sql_text, explanation, outcome, trace>>

\* lines 121-123
GenerateBlank ==
    /\ upc = "generate"
    /\ generate_btn
    /\ strip(question) = <<>>
    /\ trace' = Append(trace, Ev("st.warning", <<>>, "Please enter a question"))
    /\ EndRun("blank_question")
    /\ UNCHANGED <<coreVars, learning_mode, question, generated_sql, asked, query_result,
                   history, edited, editor_shown, generate_btn, run_btn,
                   run_sql_text, explanation>>

\* line 126, generate_sql_from_text raising (app_core.py lines 159-161): nothing
\* in app.py catches it and the run ends there
GenerateFail ==
    /\ upc = "generate"
    /\ generate_btn
    /\ strip(question) # <<>>
    /\ \E e \in ServiceErrors :
          trace' = Append(trace, Ev("generate_sql_from_text", question, e))
    /\ EndRun("generation_error")
    /\ UNCHANGED <<coreVars, learning_mode, question, generated_sql, asked, query_result,
                   history, edited, editor_shown, generate_btn, run_btn,
                   run_sql_text, explanation>>

\* lines 125-128; a text area whose default changes shows the new default
GenerateOk ==
    /\ upc = "generate"
    /\ generate_btn
    /\ strip(question) # <<>>
    /\ \E raw \in RawOutputs :
          LET sql == generate_sql_from_text(raw)
          IN  /\ generated_sql' = sql
              /\ asked' = question
              /\ edited' = IF sql = generated_sql THEN edited ELSE Unset
    /\ trace' = Append(trace, Ev("generate_sql_from_text", question, "ok"))
    /\ upc' = "display"
    /\ UNCHANGED <<coreVars, learning_mode, question, query_result, history,
                   editor_shown, generate_btn, run_btn, run_sql_text,
                   explanation, outcome>>

\* line 133, nothing generated yet: the script falls through to the sidebar
DisplayNothing ==
    /\ upc = "display"
    /\ generated_sql = <<>>
    /\ EndRun("nothing_to_run")
    /\ UNCHANGED <<coreVars, learning_mode, question, generated_sql, asked, query_result,
                   history, edited, editor_shown, generate_btn, run_btn,
                   run_sql_text, explanation, trace>>

\* lines 137-140
DisplayBeginner ==
    /\ upc = "display"
    /\ generated_sql # <<>>
    /\ learning_mode
    /\ run_sql_text' = generated_sql
    /\ upc' = "gate"
    /\ UNCHANGED <<coreVars, learning_mode, question, generated_sql, asked, query_result,
                   history, edited, editor_shown, generate_btn, run_btn,
                   explanation, outcome, trace>>

\* lines 141-148 and 153
DisplayAdvanced ==
    /\ upc = "display"
    /\ generated_sql # <<>>
    /\ ~learning_mode
    /\ editor_shown' = TRUE
    /\ run_sql_text' = IF edited = Unset THEN generated_sql ELSE edited
    /\ IF run_btn
       THEN upc' = "gate" /\ UNCHANGED outcome
       ELSE EndRun("not_run")
    /\ UNCHANGED <<coreVars, learning_mode, question, generated_sql, asked, query_result,
                   history, edited, generate_btn, run_btn, explanation, trace>>

\* A plausible slip: the st.stop() after the warning is missing.
GateWithoutStop ==
    /\ upc = "gate"
    /\ trace' = trace \o
          << Ev("is_sql_safe", run_sql_text,
                IF is_sql_safe(run_sql_text) THEN "permit" ELSE "reject"),
             Ev("run_sql", run_sql_text, "called") >>
    /\ arg' = run_sql_text
    /\ op' = "run_sql"
    /\ rpc' = "check"
    /\ upc' = "run_sql"
    /\ UNCHANGED <<ret, sql_to_run, exc, openConns, connects, executed, log,
                   learning_mode, question, generated_sql, asked, query_result, history,
                   edited, editor_shown, generate_btn, run_btn, run_sql_text,
                   explanation, outcome>>

\* lines 155-161: the gate, then the call of run_sql
Gate ==
    /\ upc = "gate"
    /\ IF ~is_sql_safe(run_sql_text)
       THEN /\ trace' = trace \o
                  << Ev("is_sql_safe", run_sql_text, "reject"),
                     Ev("st.error", <<>>, "Unsafe SQL detected. Only SELECT queries are allowed.") >>
            /\ EndRun("unsafe")
            /\ UNCHANGED <<arg, op, rpc>>
       ELSE /\ trace' = trace \o
                  << Ev("is_sql_safe", run_sql_text, "permit"),
                     Ev("run_sql", run_sql_text, "called") >>
            /\ arg' = run_sql_text
            /\ op' = "run_sql"
            /\ rpc' = "check"
            /\ upc' = "run_sql"
            /\ UNCHANGED outcome
    /\ UNCHANGED <<ret, sql_to_run, exc, openConns, connects, executed, log,
                   learning_mode, question, generated_sql, asked, query_result, history,
                   edited, editor_shown, generate_btn, run_btn, run_sql_text,
                   explanation>>

\* lines 162-164: run_sql raised
RunSqlRaised ==
    /\ upc = "run_sql"
    /\ rpc = "done"
    /\ ret.tag = "raise"
    /\ trace' = trace \o
          << Ev("run_sql", run_sql_text, "raised"),
             Ev("st.error", ret.msg, "SQL Error") >>
    /\ EndRun("sql_error")
    /\ UNCHANGED <<coreVars, learning_mode, question, generated_sql, asked, query_result,
                   history, edited, editor_shown, generate_btn, run_btn,
                   run_sql_text, explanation>>

\* lines 161 and 166-171: run_sql returned the rows
RunSqlReturned ==
    /\ upc = "run_sql"
    /\ rpc = "done"
    /\ ret.tag = "df"
    /\ trace' = Append(trace, Ev("run_sql", run_sql_text, "returned"))
    /\ query_result' = ret
    /\ upc' = "explain"
    /\ UNCHANGED <<coreVars, learning_mode, question, generated_sql, asked, history,
                   edited, editor_shown, generate_btn, run_btn, run_sql_text,
                   explanation, outcome>>

\* lines 176-178, the service answering (app_core.py lines 175-182)
ExplainOk ==
    /\ upc = "explain"
    /\ explanation' = ExplanationText
    /\ trace' = Append(trace, Ev("explain_sql", run_sql_text, "ok"))
    /\ upc' = "results"
    /\ UNCHANGED <<coreVars, learning_mode, question, generated_sql, asked, query_result,
                   history, edited, editor_shown, generate_btn, run_btn,
                   run_sql_text, outcome>>

\* A plausible slip: explain_sql lets the error of the service through.
ExplainFailRaising ==
    /\ upc = "explain"
    /\ \E e \in ServiceErrors :
          trace' = Append(trace, Ev("explain_sql", run_sql_text, e))
    /\ EndRun("explanation_error")
    /\ UNCHANGED <<coreVars, learning_mode, question, generated_sql, asked, query_result,
                   history, edited, editor_shown, generate_btn, run_btn,
                   run_sql_text, explanation>>

\* lines 176-178, the service failing (app_core.py lines 183-184)
ExplainFail ==
    /\ upc = "explain"
    /\ \E e \in ServiceErrors :
          /\ explanation' = ExplanationFailed(e)
          /\ trace' = Append(trace, Ev("explain_sql", run_sql_text, e))
    /\ upc' = "results"
    /\ UNCHANGED <<coreVars, learning_mode, question, generated_sql, asked, query_result,
                   history, edited, editor_shown, generate_btn, run_btn,
                   run_sql_text, outcome>>

\* lines 183-220: the rows, the chart and the export, or the warning
ShowResults ==
    /\ upc = "results"
    /\ trace' = Append(trace,
          IF ret.rows = 0
          THEN Ev("st.warning", <<>>, "Query returned 0 rows")
          ELSE Ev("st.dataframe", run_sql_text, "Query Results"))
    /\ upc' = "history"
    /\ UNCHANGED <<coreVars, learning_mode, question, generated_sql, asked, query_result,
                   history, edited, editor_shown, generate_btn, run_btn,
                   run_sql_text, explanation, outcome>>

\* lines 225-230
SaveHistory ==
    /\ upc = "history"
    /\ history' = <<[question |-> question, sql |-> run_sql_text, rows |-> ret.rows]>>
                     \o history
    /\ trace' = Append(trace, Ev("history.insert", run_sql_text, "saved"))
    /\ EndRun("completed")
    /\ UNCHANGED <<coreVars, learning_mode, question, generated_sql, asked, query_result,
                   edited, editor_shown, generate_btn, run_btn, run_sql_text,
                   explanation>>

InitUI == InitCore({<<>>})

NextUI ==
    \/ UserTypes
    \/ UserToggles
    \/ UserEdits
    \/ UserClicksGenerate
    \/ UserClicksRun
    \/ UserClicksClear
    \/ GenerateSkip
    \/ GenerateBlank
    \/ GenerateFail
    \/ GenerateOk
    \/ DisplayNothing
    \/ DisplayBeginner
    \/ DisplayAdvanced
    \/ Gate
    \/ RunSqlStep
    \/ RunSqlRaised
    \/ RunSqlReturned
    \/ ExplainOk
    \/ ExplainFail
    \/ ShowResults
    \/ SaveHistory

SpecUI == InitUI /\ [][NextUI]_vars

(***************************************************************************)
(* Claims about the request flow (specification SpecUI).                   *)
(***************************************************************************)
\* The explanation service failed at event i of this run.
ExplainFailedAt(i) ==
    trace[i].ev = "explain_sql" /\ trace[i].res \in ServiceErrors

\* C8: when the service fails inside explain_sql, explain_sql returns the
\* placeholder that embeds the error, and the run goes on: it is not aborted,
\* and when it has ended the results were shown and the history entry of the
\* request is recorded.
C8_ExplainFailureNonFatal ==
    \A i \in 1..Len(trace) :
        ExplainFailedAt(i) =>
            /\ explanation = ExplanationFailed(trace[i].res)
            /\ outcome \in {"running", "completed"}
            /\ upc = "idle" =>
                  /\ outcome = "completed"
                  /\ \E j \in (i + 1)..Len(trace) :
                        trace[j].ev \in {"st.dataframe", "st.warning"}
                  /\ history # <<>>
                  /\ Head(history) = [question |-> question,
                                      sql |-> trace[i].arg,
                                      rows |-> ret.rows]

\* C8 witness: a run whose explanation failed has ended with the rows shown and
\* its entry at the head of the history.
C8_Witness ==
    /\ upc = "idle"
    /\ outcome = "completed"
    /\ explanation = ExplanationFailed("timeout")
    /\ \E i \in 1..Len(trace) : ExplainFailedAt(i)
    /\ \E j \in 1..Len(trace) : trace[j].ev = "st.dataframe"
    /\ history # <<>>
    /\ Head(history).sql = run_sql_text
    /\ Head(history).rows = 1

\* The run was aborted: the gate rejected the statement or run_sql raised.
Aborted(tr) == \E i \in 1..Len(tr) : tr[i].res \in {"reject", "raised"}

C9_OrderKept ==
    /\ op = "run_sql" => is_sql_safe(arg)
    /\ \A i \in 1..Len(trace) :
          /\ (trace[i].ev = "run_sql" /\ trace[i].res = "called") =>
                i > 1 /\ trace[i - 1] = Ev("is_sql_safe", trace[i].arg, "permit")
          /\ trace[i].ev = "explain_sql" =>
                i > 1 /\ trace[i - 1] = Ev("run_sql", trace[i].arg, "returned")
    /\ Aborted(trace) =>
          /\ upc = "idle"
          /\ \A i \in 1..Len(trace) :
                trace[i].ev \notin {"explain_sql", "history.insert"}

\* C9: in every run the gate comes first, run_sql is called only on the string
\* the gate has just permitted, explain_sql only after run_sql returned; a run
\* that the gate rejects or in which run_sql raises ends there: explain_sql is
\* not called and the history is left as it was.
C9_GateEngineExplainOrder ==
    /\ []C9_OrderKept
    /\ [][Aborted(trace') => history' = history]_vars

\* C9 witness: after an earlier run that completed, a run ended with run_sql
\* raising on a permitted statement, and the history still holds one entry.
C9_Witness ==
    /\ upc = "idle"
    /\ outcome = "sql_error"
    /\ Aborted(trace)
    /\ trace[1] = Ev("is_sql_safe", run_sql_text, "permit")
    /\ executed # <<>>
    /\ Len(history) = 1

(***************************************************************************)
(* Claim about the history (specification SpecUI).                         *)
(***************************************************************************)
\* C11: every entry put into the history pairs the question with SQL that was
\* produced for that same question: the statement generated from it, or the
\* user's edit of that statement; never SQL left in the session from another
\* question.
C11_HistoryPairsQuestionWithItsSql ==
    [][Len(history') = Len(history) + 1 =>
          /\ Head(history').question = asked'
          /\ Head(history').sql \in {generated_sql'} \cup EditedSql]_vars

=============================================================================
